---- MODULE Spec2Model ----
(***************************************************************************)
(* Room server of RouletteTogether (server index.ts, the socket.io event   *)
(* handlers registered in io.on('connection')).  One action per handler;   *)
(* a handler runs to completion (single-threaded event loop), so each      *)
(* action is one atomic step.                                              *)
(*                                                                         *)
(* Abstractions: Date.now() timestamps are left out of every payload;      *)
(* error texts are replaced by ASCII tags; Math.random() is a choice from  *)
(* Seeds.  Room names and socket ids are disjoint sets of strings.  A      *)
(* socket id is never assigned twice.  An optional field is a sequence of  *)
(* length 0 (absent) or 1 (present).                                       *)
(*                                                                         *)
(* Five specifications share the handlers: Spec runs every handler for     *)
(* every client and room name over short runs; SpecMembership runs joins,  *)
(* kicks, destroys, disconnects and the two queries over longer runs;      *)
(* SpecRound runs one roulette room's round and SpecBetting one betting    *)
(* room's bets over the longest runs; SpecClient adds one browser tab      *)
(* (App.tsx, pages/Room.tsx) whose socket is s2, with the messages in      *)
(* flight in both directions.  The length of a run is the budget set by    *)
(* the initial state.                                                      *)
(***************************************************************************)
EXTENDS Integers, Sequences, FiniteSets, TLC

(* ---- bounds ---- *)
MaxSteps == 3
MaxMembershipSteps == 5
MaxRoundSteps == 6
MaxBettingSteps == 6
MaxClientSteps == 7
MaxParticipants == 3
MaxRules == 1
MaxDrawings == 1

(* ---- input alphabets ---- *)
SocketOrder == <<"s1", "s2", "s3">>
SocketIds == {SocketOrder[i] : i \in 1..Len(SocketOrder)}
RoomNames == {"A", "B"}
UserNameOf == [s \in SocketIds |-> IF s = "s2" THEN "bob" ELSE "ann"]
GameModes == {"all_results", "winner_only", "loser_only"}
RoomTypeInputs == {"", "betting"}
RuleIds == {"r1", "r2"}
RuleInputs == {[id |-> i, label |-> "Pizza", weight |-> 1] : i \in RuleIds}
DrawingInputs == {[odrawId |-> "d1", odrawType |-> "pin"]}
ResultInputs == {[participantId |-> p, ruleId |-> i] : p \in {"s1", "s2"}, i \in {"r1"}}
    \cup {[participantId |-> "s2", ruleId |-> "r2"]}
TitleInputs == {"t1"}
Seeds == {1, 2}

(* ---- state ---- *)
VARIABLES
    rooms,      \* const rooms = new Map<string, RoomData>()
    roomOrder,  \* insertion order of the keys of the Map
    sioRooms,   \* socket.io adapter: room name -> sockets that did socket.join
    live,       \* sockets that are connected
    gone,       \* sockets that have disconnected (ids are never reused)
    sent,       \* the emits of the last handler run, in order
    last,       \* the last event handled: [op, sock, room, arg]
    budget,     \* number of events the run may still handle
    client      \* one browser tab: React state of App and Room, and its socket's queues

vars == <<rooms, roomOrder, sioRooms, live, gone, sent, last, budget, client>>

(* ---- helpers ---- *)
None == <<>>
Some(x) == <<x>>
NoBody == <<>>

Has(r) == r \in DOMAIN rooms

\* Array.prototype.findIndex(x => key(x) === value), given the keys of the
\* array's elements in order; 0 stands for JavaScript's -1
RECURSIVE FindFrom(_, _, _)
FindFrom(keys, value, i) ==
    IF i > Len(keys) THEN 0
    ELSE IF keys[i] = value THEN i ELSE FindFrom(keys, value, i + 1)

FindIndex(keys, value) == FindFrom(keys, value, 1)

\* p => p.id, r => r.participantId over an array
IdsOf(participants) == [i \in 1..Len(participants) |-> participants[i].id]
ParticipantIdsOf(results) == [i \in 1..Len(results) |-> results[i].participantId]

\* Array.prototype.splice(i, 1)
Splice(seq, i) == [k \in 1..(Len(seq) - 1) |-> IF k < i THEN seq[k] ELSE seq[k + 1]]

\* rooms.delete(r) on the insertion order
RemoveName(order, r) == SelectSeq(order, LAMBDA x : x # r)

MapPut(m, r, v) == [x \in DOMAIN m \cup {r} |-> IF x = r THEN v ELSE m[x]]
MapDelete(m, r) == [x \in DOMAIN m \ {r} |-> m[x]]

Ids(participants) == {participants[i].id : i \in 1..Len(participants)}

\* faulty variant of Unicast: io.emit, every open socket gets the message
UnicastToAll(s, ev, body) == [to |-> live, ev |-> ev, room |-> "", body |-> body]

\* socket.emit(ev, body): one delivery, to the socket itself
Unicast(s, ev, body) == [to |-> {s}, ev |-> ev, room |-> "", body |-> body]
\* io.to(target).emit(ev, body): delivered to the sockets in the adapter room
ToRoom(members, r, ev, body) == [to |-> members, ev |-> ev, room |-> r, body |-> body]

ErrorMessage(s, tag) == Unicast(s, "error_message", [message |-> tag])

\* faulty variant of IsHost: the host check is missing
IsHostAlways(s, room) == TRUE

\* socket.id === room.hostId
IsHost(s, room) == s = room.hostId

\* faulty variant of HostStatus: reports the requester's own id as hostId
HostStatusOfRequester(s, room) == [isHost |-> s = room.hostId, hostId |-> s]

\* the payload of host_status
HostStatus(s, room) == [isHost |-> IsHost(s, room), hostId |-> room.hostId]

Event(op, s, r, arg) == [op |-> op, sock |-> s, room |-> r, arg |-> arg]

\* the value of client in the specifications that model the server alone
NoClient ==
    [pc |-> "absent", app |-> [isHost |-> FALSE, hostId |-> ""], seen |-> [isHost |-> FALSE, hostId |-> ""],
     isHost |-> FALSE, hostId |-> "", inbox |-> <<>>, outbox |-> <<>>, answered |-> {}]

\* the server after start-up: no room, no socket; n events will be handled
InitWith(n) ==
    /\ rooms = <<>>
    /\ roomOrder = <<>>
    /\ sioRooms = [r \in RoomNames |-> {}]
    /\ live = {}
    /\ gone = {}
    /\ sent = <<>>
    /\ last = Event("init", "", "", NoBody)
    /\ budget = n
    /\ client = NoClient

Init == InitWith(MaxSteps)

\* handling one event uses up one unit of the budget; a handler touches no
\* browser state (what it emits is put in the tab's inbox by the steps of
\* SpecClient)
Tick ==
    /\ budget > 0
    /\ budget' = budget - 1
    /\ IF client.pc = "absent" THEN client' = client ELSE TRUE

(* io.on('connection'): the transport assigns the next unused id *)
connection(i) ==
    /\ i \in 1..Len(SocketOrder)
    /\ SocketOrder[i] \notin live \cup gone
    /\ \A k \in 1..(i - 1) : SocketOrder[k] \in live \cup gone
    /\ live' = live \cup {SocketOrder[i]}
    /\ sent' = <<>>
    /\ last' = Event("connection", SocketOrder[i], "", NoBody)
    /\ UNCHANGED <<rooms, roomOrder, sioRooms, gone, budget, client>>

\* faulty variant of NewRoom: every new room gets a bettingState
NewRoomWithBettingState(s, roomType) ==
    [participants |-> <<>>,
     rules |-> <<>>,
     status |-> "waiting",
     hostId |-> s,
     gameMode |-> "all_results",
     drawings |-> <<>>,
     gameResults |-> <<>>,
     roomType |-> IF roomType = "" THEN "roulette" ELSE roomType,
     bettingState |-> Some([bets |-> <<>>, bettingOpen |-> TRUE,
                            bettingTitle |-> "naegi", winningRuleId |-> None])]

(* the RoomData literal of join_room *)
NewRoom(s, roomType) ==
    LET newRoomType == IF roomType = "" THEN "roulette" ELSE roomType
    IN [participants |-> <<>>,
        rules |-> <<>>,
        status |-> "waiting",
        hostId |-> s,
        gameMode |-> "all_results",
        drawings |-> <<>>,
        gameResults |-> <<>>,
        roomType |-> newRoomType,
        bettingState |-> IF newRoomType = "betting"
                         THEN Some([bets |-> <<>>, bettingOpen |-> TRUE,
                                    bettingTitle |-> "naegi", winningRuleId |-> None])
                         ELSE None]

\* faulty variant of JoinedRoom: every join makes the joiner the host
JoinedRoomRehost(s, r, userName, roomType) ==
    LET base == IF Has(r) THEN rooms[r] ELSE NewRoom(s, roomType)
    IN [base EXCEPT !.participants = Append(@, [id |-> s, name |-> userName]),
                    !.hostId = s]

\* faulty variant of JoinedRoom: a join puts the room back to waiting
JoinedRoomResetsStatus(s, r, userName, roomType) ==
    LET base == IF Has(r) THEN rooms[r] ELSE NewRoom(s, roomType)
    IN [base EXCEPT !.participants = Append(@, [id |-> s, name |-> userName]),
                    !.status = "waiting"]

\* faulty variant of JoinedRoom: the room takes the roomType of the last joiner
JoinedRoomRetypes(s, r, userName, roomType) ==
    LET base == IF Has(r) THEN rooms[r] ELSE NewRoom(s, roomType)
    IN [base EXCEPT !.participants = Append(@, [id |-> s, name |-> userName]),
                    !.roomType = IF roomType = "" THEN "roulette" ELSE roomType]

\* faulty variant of JoinedRoom: the existence test is lost in a race, every
\* join installs a new room over the one that is there
JoinedRoomRecreates(s, r, userName, roomType) ==
    [NewRoom(s, roomType) EXCEPT !.participants = <<[id |-> s, name |-> userName]>>]

\* faulty variant of JoinedRoom: a new room takes over, as participants, the
\* sockets that a former room of the same name left in the adapter room
JoinedRoomAdoptsMembers(s, r, userName, roomType) ==
    LET old == SelectSeq(SocketOrder, LAMBDA x : x \in sioRooms[r] \ {s})
        base == IF Has(r) THEN rooms[r]
                ELSE [NewRoom(s, roomType) EXCEPT
                         !.participants = [i \in 1..Len(old) |-> [id |-> old[i], name |-> UserNameOf[old[i]]]]]
    IN [base EXCEPT !.participants = Append(@, [id |-> s, name |-> userName])]

JoinedRoom(s, r, userName, roomType) ==
    LET base == IF Has(r) THEN rooms[r] ELSE NewRoom(s, roomType)
    IN [base EXCEPT !.participants = Append(@, [id |-> s, name |-> userName])]

join_room(s, r, userName, roomType) ==
    LET room == JoinedRoom(s, r, userName, roomType)
        members == sioRooms[r] \cup {s}
    IN /\ s \in live
       /\ Tick
       /\ Len(room.participants) <= MaxParticipants
       /\ sioRooms' = [sioRooms EXCEPT ![r] = members]
       /\ rooms' = MapPut(rooms, r, room)
       /\ roomOrder' = IF Has(r) THEN roomOrder ELSE Append(roomOrder, r)
       /\ sent' = <<ToRoom(members, r, "participant_list", [participants |-> room.participants]),
                    ToRoom(members, r, "rule_list", [rules |-> room.rules]),
                    Unicast(s, "host_status", HostStatus(s, room)),
                    Unicast(s, "game_mode_updated", [mode |-> room.gameMode]),
                    Unicast(s, "room_type", [roomType |-> room.roomType])>>
                  \o (IF room.roomType = "betting" /\ room.bettingState # None
                      THEN <<Unicast(s, "betting_state_updated", [bettingState |-> room.bettingState[1]])>>
                      ELSE <<>>)
                  \o <<ToRoom(members, r, "user_notification", [userName |-> userName, type |-> "join"])>>
       /\ last' = Event("join_room", s, r, [userName |-> userName, roomType |-> roomType, created |-> ~Has(r)])
       /\ UNCHANGED <<live, gone>>

\* faulty variant of DisconnectRoom: no wasHost branch, the host leaves like
\* any other participant
DisconnectRoomKeepsRoom(s, r, rms, members) ==
    LET room == rms[r]
        index == FindIndex(IdsOf(room.participants), s)
    IN IF index = 0 THEN [rooms |-> rms, sent |-> <<>>]
       ELSE LET userName == room.participants[index].name
                left == Splice(room.participants, index)
            IN [rooms |-> IF Len(left) = 0 THEN MapDelete(rms, r)
                          ELSE [rms EXCEPT ![r].participants = left],
                sent |-> <<ToRoom(members, r, "participant_list", [participants |-> left]),
                           ToRoom(members, r, "user_notification", [userName |-> userName, type |-> "leave"])>>]

\* faulty variant of DisconnectRoom: a leaving host hands the room to the
\* next participant
DisconnectRoomTransfersHost(s, r, rms, members) ==
    LET room == rms[r]
        index == FindIndex(IdsOf(room.participants), s)
    IN IF index = 0 THEN [rooms |-> rms, sent |-> <<>>]
       ELSE LET userName == room.participants[index].name
                left == Splice(room.participants, index)
            IN [rooms |-> IF Len(left) = 0 THEN MapDelete(rms, r)
                          ELSE [rms EXCEPT ![r].participants = left,
                                           ![r].hostId = IF s = room.hostId THEN left[1].id ELSE @],
                sent |-> <<ToRoom(members, r, "participant_list", [participants |-> left]),
                           ToRoom(members, r, "user_notification", [userName |-> userName, type |-> "leave"])>>]

\* faulty variant of DisconnectRoom: every leaver is spliced out and the room
\* is never deleted
DisconnectRoomSpliceOnly(s, r, rms, members) ==
    LET room == rms[r]
        index == FindIndex(IdsOf(room.participants), s)
    IN IF index = 0 THEN [rooms |-> rms, sent |-> <<>>]
       ELSE LET userName == room.participants[index].name
                left == Splice(room.participants, index)
            IN [rooms |-> [rms EXCEPT ![r].participants = left],
                sent |-> <<ToRoom(members, r, "participant_list", [participants |-> left]),
                           ToRoom(members, r, "user_notification", [userName |-> userName, type |-> "leave"])>>]

(* the body of rooms.forEach in the disconnect handler, for one room;      *)
(* members is the adapter room after the socket has left it                *)
DisconnectRoom(s, r, rms, members) ==
    LET room == rms[r]
        index == FindIndex(IdsOf(room.participants), s)
    IN IF index = 0 THEN [rooms |-> rms, sent |-> <<>>]
       ELSE IF IsHost(s, room)
       THEN [rooms |-> MapDelete(rms, r),
             sent |-> <<ToRoom(members, r, "room_destroyed", NoBody)>>]
       ELSE LET userName == room.participants[index].name
                left == Splice(room.participants, index)
            IN [rooms |-> IF Len(left) = 0 THEN MapDelete(rms, r)
                          ELSE [rms EXCEPT ![r].participants = left],
                sent |-> <<ToRoom(members, r, "participant_list", [participants |-> left]),
                           ToRoom(members, r, "user_notification", [userName |-> userName, type |-> "leave"])>>]

\* rooms.forEach(...) in insertion order
RECURSIVE DisconnectAll(_, _, _, _, _)
DisconnectAll(s, order, i, acc, adapter) ==
    IF i > Len(order) THEN acc
    ELSE LET one == DisconnectRoom(s, order[i], acc.rooms, adapter[order[i]])
         IN DisconnectAll(s, order, i + 1,
                          [rooms |-> one.rooms, sent |-> acc.sent \o one.sent], adapter)

(* socket.on('disconnect'): socket.io has already removed the socket from  *)
(* every adapter room when the handler runs                                *)
disconnect(s) ==
    LET adapter == [r \in RoomNames |-> sioRooms[r] \ {s}]
        res == DisconnectAll(s, roomOrder, 1, [rooms |-> rooms, sent |-> <<>>], adapter)
    IN /\ s \in live
       /\ Tick
       /\ live' = live \ {s}
       /\ gone' = gone \cup {s}
       /\ sioRooms' = adapter
       /\ rooms' = res.rooms
       /\ roomOrder' = SelectSeq(roomOrder, LAMBDA x : x \in DOMAIN res.rooms)
       /\ sent' = res.sent
       /\ last' = Event("disconnect", s, "", NoBody)

(* socket.on('request_host_status') *)
request_host_status(s, r) ==
    /\ s \in live
    /\ Tick
    /\ sent' = IF Has(r) THEN <<Unicast(s, "host_status", HostStatus(s, rooms[r]))>> ELSE <<>>
    /\ last' = Event("request_host_status", s, r, NoBody)
    /\ UNCHANGED <<rooms, roomOrder, sioRooms, live, gone>>

(* socket.on('set_game_mode') *)
set_game_mode(s, r, mode) ==
    /\ s \in live
    /\ Tick
    /\ last' = Event("set_game_mode", s, r, [mode |-> mode])
    /\ IF ~Has(r) THEN sent' = <<>> /\ UNCHANGED rooms
       ELSE IF ~IsHost(s, rooms[r])
       THEN sent' = <<ErrorMessage(s, "host_only_game_mode")>> /\ UNCHANGED rooms
       ELSE /\ rooms' = [rooms EXCEPT ![r].gameMode = mode]
            /\ sent' = <<ToRoom(sioRooms[r], r, "game_mode_updated", [mode |-> mode])>>
    /\ UNCHANGED <<roomOrder, sioRooms, live, gone>>

(* socket.on('create_rule') *)
create_rule(s, r, rule) ==
    /\ s \in live
    /\ Tick
    /\ last' = Event("create_rule", s, r, [rule |-> rule])
    /\ IF ~Has(r) THEN sent' = <<>> /\ UNCHANGED rooms
       ELSE IF ~IsHost(s, rooms[r])
       THEN sent' = <<ErrorMessage(s, "host_only_create_rule")>> /\ UNCHANGED rooms
       ELSE /\ Len(rooms[r].rules) < MaxRules
            /\ rooms' = [rooms EXCEPT ![r].rules = Append(@, rule)]
            /\ sent' = <<ToRoom(sioRooms[r], r, "rule_list", [rules |-> rooms'[r].rules])>>
    /\ UNCHANGED <<roomOrder, sioRooms, live, gone>>

\* faulty variant of start_game: Math.random() is called once per emit, the
\* host and the other members get different seeds
start_gameSeedPerEmit(s, r, seed) ==
    /\ s \in live
    /\ Tick
    /\ last' = Event("start_game", s, r, NoBody)
    /\ IF ~Has(r) THEN sent' = <<>> /\ UNCHANGED rooms
       ELSE IF ~IsHost(s, rooms[r])
       THEN sent' = <<ErrorMessage(s, "host_only_start_game")>> /\ UNCHANGED rooms
       ELSE IF Len(rooms[r].rules) = 0
       THEN sent' = <<ErrorMessage(s, "need_one_rule")>> /\ UNCHANGED rooms
       ELSE /\ rooms' = [rooms EXCEPT ![r].status = "playing"]
            /\ sent' = <<ToRoom(sioRooms[r] \cap {s}, r, "game_started", [seed |-> seed]),
                         ToRoom(sioRooms[r] \ {s}, r, "game_started",
                                [seed |-> CHOOSE x \in Seeds : x # seed])>>
    /\ UNCHANGED <<roomOrder, sioRooms, live, gone>>

\* faulty variant of start_game: the rules.length === 0 check is missing
start_gameWithoutRules(s, r, seed) ==
    /\ s \in live
    /\ Tick
    /\ last' = Event("start_game", s, r, NoBody)
    /\ IF ~Has(r) THEN sent' = <<>> /\ UNCHANGED rooms
       ELSE IF ~IsHost(s, rooms[r])
       THEN sent' = <<ErrorMessage(s, "host_only_start_game")>> /\ UNCHANGED rooms
       ELSE /\ rooms' = [rooms EXCEPT ![r].status = "playing"]
            /\ sent' = <<ToRoom(sioRooms[r], r, "game_started", [seed |-> seed])>>
    /\ UNCHANGED <<roomOrder, sioRooms, live, gone>>

(* socket.on('start_game'); seed is the value of Math.random() *)
start_game(s, r, seed) ==
    /\ s \in live
    /\ Tick
    /\ last' = Event("start_game", s, r, NoBody)
    /\ IF ~Has(r) THEN sent' = <<>> /\ UNCHANGED rooms
       ELSE IF ~IsHost(s, rooms[r])
       THEN sent' = <<ErrorMessage(s, "host_only_start_game")>> /\ UNCHANGED rooms
       ELSE IF Len(rooms[r].rules) = 0
       THEN sent' = <<ErrorMessage(s, "need_one_rule")>> /\ UNCHANGED rooms
       ELSE /\ rooms' = [rooms EXCEPT ![r].status = "playing"]
            /\ sent' = <<ToRoom(sioRooms[r], r, "game_started", [seed |-> seed])>>
    /\ UNCHANGED <<roomOrder, sioRooms, live, gone>>

(* socket.on('send_emoticon') and socket.on('send_chat'): relay to the room *)
Relay(s, r, op, ev, text) ==
    /\ s \in live
    /\ Tick
    /\ last' = Event(op, s, r, NoBody)
    /\ LET index == IF Has(r) THEN FindIndex(IdsOf(rooms[r].participants), s) ELSE 0
       IN sent' = IF index = 0 THEN <<>>
                  ELSE <<ToRoom(sioRooms[r], r, ev,
                                [userId |-> s, userName |-> rooms[r].participants[index].name,
                                 text |-> text])>>
    /\ UNCHANGED <<rooms, roomOrder, sioRooms, live, gone>>

send_emoticon(s, r) == Relay(s, r, "send_emoticon", "emoticon_received", "smile")

send_chat(s, r) == Relay(s, r, "send_chat", "chat_received", "hello")

(* socket.on('draw_object') *)
draw_object(s, r, drawing) ==
    /\ s \in live
    /\ Tick
    /\ last' = Event("draw_object", s, r, [drawing |-> drawing])
    /\ IF ~Has(r) THEN sent' = <<>> /\ UNCHANGED rooms
       ELSE /\ Len(rooms[r].drawings) < MaxDrawings
            /\ rooms' = [rooms EXCEPT ![r].drawings = Append(@, drawing)]
            /\ sent' = <<ToRoom(sioRooms[r], r, "drawing_received", [drawing |-> drawing])>>
    /\ UNCHANGED <<roomOrder, sioRooms, live, gone>>

\* faulty variant of SyncData: the results are left out of the snapshot
SyncDataWithoutResults(room) ==
    [participants |-> room.participants,
     rules |-> room.rules,
     drawings |-> room.drawings,
     gameMode |-> room.gameMode,
     status |-> room.status,
     hostId |-> room.hostId,
     gameResults |-> <<>>,
     roomType |-> room.roomType,
     bettingState |-> room.bettingState]

(* the syncData literal of request_room_sync *)
SyncData(room) ==
    [participants |-> room.participants,
     rules |-> room.rules,
     drawings |-> room.drawings,
     gameMode |-> room.gameMode,
     status |-> room.status,
     hostId |-> room.hostId,
     gameResults |-> room.gameResults,
     roomType |-> room.roomType,
     bettingState |-> room.bettingState]

\* faulty variant of request_room_sync: an unknown room is answered by an error
request_room_syncOrError(s, r) ==
    /\ s \in live
    /\ Tick
    /\ sent' = IF Has(r) THEN <<Unicast(s, "room_sync", SyncData(rooms[r]))>>
               ELSE <<ErrorMessage(s, "no_such_room")>>
    /\ last' = Event("request_room_sync", s, r, NoBody)
    /\ UNCHANGED <<rooms, roomOrder, sioRooms, live, gone>>

(* socket.on('request_room_sync') *)
request_room_sync(s, r) ==
    /\ s \in live
    /\ Tick
    /\ sent' = IF Has(r) THEN <<Unicast(s, "room_sync", SyncData(rooms[r]))>> ELSE <<>>
    /\ last' = Event("request_room_sync", s, r, NoBody)
    /\ UNCHANGED <<rooms, roomOrder, sioRooms, live, gone>>

\* faulty variant of ReportedResults: no check for an existing entry
ReportedResultsNoDedup(s, room, result) ==
    IF room.status = "playing" \/ s = room.hostId
    THEN Append(room.gameResults, result)
    ELSE room.gameResults

\* faulty variant of ReportedResults: a later report replaces the entry
ReportedResultsOverwrite(s, room, result) ==
    IF room.status = "playing" \/ s = room.hostId
    THEN LET existingIndex == FindIndex(ParticipantIdsOf(room.gameResults), result.participantId)
         IN IF existingIndex = 0 THEN Append(room.gameResults, result)
            ELSE [room.gameResults EXCEPT ![existingIndex] = result]
    ELSE room.gameResults

(* the gameResults of the room after report_result *)
ReportedResults(s, room, result) ==
    IF room.status = "playing" \/ IsHost(s, room)
    THEN LET existingIndex == FindIndex(ParticipantIdsOf(room.gameResults), result.participantId)
         IN IF existingIndex = 0 THEN Append(room.gameResults, result) ELSE room.gameResults
    ELSE room.gameResults

(* socket.on('report_result') *)
report_result(s, r, result) ==
    /\ s \in live
    /\ Tick
    /\ last' = Event("report_result", s, r, [result |-> result])
    /\ sent' = <<>>
    /\ IF ~Has(r) THEN UNCHANGED rooms
       ELSE rooms' = [rooms EXCEPT ![r].gameResults = ReportedResults(s, rooms[r], result)]
    /\ UNCHANGED <<roomOrder, sioRooms, live, gone>>

\* faulty variant of clear_results: the reset empties room.rules as well
clear_resultsClearsRules(s, r) ==
    /\ s \in live
    /\ Tick
    /\ last' = Event("clear_results", s, r, NoBody)
    /\ IF Has(r) /\ IsHost(s, rooms[r])
       THEN /\ rooms' = [rooms EXCEPT ![r].gameResults = <<>>,
                                      ![r].drawings = <<>>,
                                      ![r].rules = <<>>,
                                      ![r].status = "waiting"]
            /\ sent' = <<ToRoom(sioRooms[r], r, "game_reset", NoBody)>>
       ELSE sent' = <<>> /\ UNCHANGED rooms
    /\ UNCHANGED <<roomOrder, sioRooms, live, gone>>

\* faulty variant of clear_results: room.drawings is not emptied
clear_resultsKeepsDrawings(s, r) ==
    /\ s \in live
    /\ Tick
    /\ last' = Event("clear_results", s, r, NoBody)
    /\ IF Has(r) /\ IsHost(s, rooms[r])
       THEN /\ rooms' = [rooms EXCEPT ![r].gameResults = <<>>,
                                      ![r].status = "waiting"]
            /\ sent' = <<ToRoom(sioRooms[r], r, "game_reset", NoBody)>>
       ELSE sent' = <<>> /\ UNCHANGED rooms
    /\ UNCHANGED <<roomOrder, sioRooms, live, gone>>

(* socket.on('clear_results') *)
clear_results(s, r) ==
    /\ s \in live
    /\ Tick
    /\ last' = Event("clear_results", s, r, NoBody)
    /\ IF Has(r) /\ IsHost(s, rooms[r])
       THEN /\ rooms' = [rooms EXCEPT ![r].gameResults = <<>>,
                                      ![r].drawings = <<>>,
                                      ![r].status = "waiting"]
            /\ sent' = <<ToRoom(sioRooms[r], r, "game_reset", NoBody)>>
       ELSE sent' = <<>> /\ UNCHANGED rooms
    /\ UNCHANGED <<roomOrder, sioRooms, live, gone>>

(* socket.on('game_finished') *)
game_finished(s, r) ==
    /\ s \in live
    /\ Tick
    /\ last' = Event("game_finished", s, r, NoBody)
    /\ sent' = <<>>
    /\ IF Has(r) /\ IsHost(s, rooms[r])
       THEN rooms' = [rooms EXCEPT ![r].status = "finished"]
       ELSE UNCHANGED rooms
    /\ UNCHANGED <<roomOrder, sioRooms, live, gone>>

\* faulty variant of kick_user: the userId === socket.id check is missing
kick_userSelfAllowed(s, r, userId) ==
    /\ s \in live
    /\ Tick
    /\ last' = Event("kick_user", s, r, [userId |-> userId])
    /\ IF ~Has(r) THEN sent' = <<>> /\ UNCHANGED rooms
       ELSE IF ~IsHost(s, rooms[r])
       THEN sent' = <<ErrorMessage(s, "host_only_kick")>> /\ UNCHANGED rooms
       ELSE LET participantIndex == FindIndex(IdsOf(rooms[r].participants), userId)
                kickedUser == rooms[r].participants[participantIndex]
                left == Splice(rooms[r].participants, participantIndex)
            IN IF participantIndex = 0 THEN sent' = <<>> /\ UNCHANGED rooms
               ELSE /\ rooms' = [rooms EXCEPT ![r].participants = left]
                    /\ sent' = <<ToRoom({userId} \cap live, userId, "kicked", NoBody),
                                 ToRoom(sioRooms[r], r, "participant_list", [participants |-> left]),
                                 ToRoom(sioRooms[r], r, "user_notification",
                                        [userName |-> kickedUser.name, type |-> "leave"])>>
    /\ UNCHANGED <<roomOrder, sioRooms, live, gone>>

(* socket.on('kick_user'); io.to(userId) is the socket's own adapter room *)
kick_user(s, r, userId) ==
    /\ s \in live
    /\ Tick
    /\ last' = Event("kick_user", s, r, [userId |-> userId])
    /\ IF ~Has(r) THEN sent' = <<>> /\ UNCHANGED rooms
       ELSE IF ~IsHost(s, rooms[r])
       THEN sent' = <<ErrorMessage(s, "host_only_kick")>> /\ UNCHANGED rooms
       ELSE IF userId = s
       THEN sent' = <<ErrorMessage(s, "cannot_kick_self")>> /\ UNCHANGED rooms
       ELSE LET participantIndex == FindIndex(IdsOf(rooms[r].participants), userId)
                kickedUser == rooms[r].participants[participantIndex]
                left == Splice(rooms[r].participants, participantIndex)
            IN IF participantIndex = 0 THEN sent' = <<>> /\ UNCHANGED rooms
               ELSE /\ rooms' = [rooms EXCEPT ![r].participants = left]
                    /\ sent' = <<ToRoom({userId} \cap live, userId, "kicked", NoBody),
                                 ToRoom(sioRooms[r], r, "participant_list", [participants |-> left]),
                                 ToRoom(sioRooms[r], r, "user_notification",
                                        [userName |-> kickedUser.name, type |-> "leave"])>>
    /\ UNCHANGED <<roomOrder, sioRooms, live, gone>>

\* faulty variant of DestroyEmits: socket.emit instead of io.to(roomName).emit
DestroyEmitsToSender(s, r) == <<Unicast(s, "room_destroyed", NoBody)>>

\* io.to(roomName).emit('room_destroyed') of destroy_room
DestroyEmits(s, r) == <<ToRoom(sioRooms[r], r, "room_destroyed", NoBody)>>

(* socket.on('destroy_room') *)
destroy_room(s, r) ==
    /\ s \in live
    /\ Tick
    /\ last' = Event("destroy_room", s, r, NoBody)
    /\ IF ~Has(r) THEN sent' = <<>> /\ UNCHANGED <<rooms, roomOrder>>
       ELSE IF ~IsHost(s, rooms[r])
       THEN sent' = <<ErrorMessage(s, "host_only_destroy")>> /\ UNCHANGED <<rooms, roomOrder>>
       ELSE /\ sent' = DestroyEmits(s, r)
            /\ rooms' = MapDelete(rooms, r)
            /\ roomOrder' = RemoveName(roomOrder, r)
    /\ UNCHANGED <<sioRooms, live, gone>>

(* ---- betting mode events ---- *)

\* room && room.roomType === 'betting' && room.bettingState
IsBetting(r) == Has(r) /\ rooms[r].roomType = "betting" /\ rooms[r].bettingState # None

BroadcastBetting(r) ==
    ToRoom(sioRooms[r], r, "betting_state_updated", [bettingState |-> rooms'[r].bettingState[1]])

(* socket.on('set_betting_title') *)
set_betting_title(s, r, title) ==
    /\ s \in live
    /\ Tick
    /\ last' = Event("set_betting_title", s, r, [title |-> title])
    /\ IF ~IsBetting(r) THEN sent' = <<>> /\ UNCHANGED rooms
       ELSE IF ~IsHost(s, rooms[r])
       THEN sent' = <<ErrorMessage(s, "host_only_betting_title")>> /\ UNCHANGED rooms
       ELSE /\ rooms' = [rooms EXCEPT ![r].bettingState[1].bettingTitle = title]
            /\ sent' = <<BroadcastBetting(r)>>
    /\ UNCHANGED <<roomOrder, sioRooms, live, gone>>

\* faulty variant of PlacedBets: the sender's previous bet is not filtered out
PlacedBetsAppendOnly(s, bets, name, ruleId) ==
    Append(bets, [odrederId |-> s, odrerName |-> name, ruleId |-> ruleId])

(* the bets after place_bet: filter out the sender's bet, push the new one *)
PlacedBets(s, bets, name, ruleId) ==
    Append(SelectSeq(bets, LAMBDA b : b.odrederId # s),
           [odrederId |-> s, odrerName |-> name, ruleId |-> ruleId])

\* faulty variant of place_bet: the bettingOpen check is missing
place_betWhenClosed(s, r, ruleId) ==
    /\ s \in live
    /\ Tick
    /\ last' = Event("place_bet", s, r, [ruleId |-> ruleId])
    /\ IF ~IsBetting(r) THEN sent' = <<>> /\ UNCHANGED rooms
       ELSE LET index == FindIndex(IdsOf(rooms[r].participants), s)
            IN IF index = 0
               THEN sent' = <<ErrorMessage(s, "participants_only")>> /\ UNCHANGED rooms
               ELSE /\ rooms' = [rooms EXCEPT ![r].bettingState[1].bets =
                                     PlacedBets(s, @, rooms[r].participants[index].name, ruleId)]
                    /\ sent' = <<BroadcastBetting(r)>>
    /\ UNCHANGED <<roomOrder, sioRooms, live, gone>>

(* socket.on('place_bet') *)
place_bet(s, r, ruleId) ==
    /\ s \in live
    /\ Tick
    /\ last' = Event("place_bet", s, r, [ruleId |-> ruleId])
    /\ IF ~IsBetting(r) THEN sent' = <<>> /\ UNCHANGED rooms
       ELSE IF ~rooms[r].bettingState[1].bettingOpen
       THEN sent' = <<ErrorMessage(s, "betting_closed")>> /\ UNCHANGED rooms
       ELSE LET index == FindIndex(IdsOf(rooms[r].participants), s)
            IN IF index = 0
               THEN sent' = <<ErrorMessage(s, "participants_only")>> /\ UNCHANGED rooms
               ELSE /\ rooms' = [rooms EXCEPT ![r].bettingState[1].bets =
                                     PlacedBets(s, @, rooms[r].participants[index].name, ruleId)]
                    /\ sent' = <<BroadcastBetting(r)>>
    /\ UNCHANGED <<roomOrder, sioRooms, live, gone>>

(* socket.on('close_betting') *)
close_betting(s, r) ==
    /\ s \in live
    /\ Tick
    /\ last' = Event("close_betting", s, r, NoBody)
    /\ IF ~IsBetting(r) THEN sent' = <<>> /\ UNCHANGED rooms
       ELSE IF ~IsHost(s, rooms[r])
       THEN sent' = <<ErrorMessage(s, "host_only_close_betting")>> /\ UNCHANGED rooms
       ELSE /\ rooms' = [rooms EXCEPT ![r].bettingState[1].bettingOpen = FALSE]
            /\ sent' = <<BroadcastBetting(r)>>
    /\ UNCHANGED <<roomOrder, sioRooms, live, gone>>

\* the participants pushed by the bets.forEach of select_winner
RECURSIVE Partition(_, _, _, _, _)
Partition(bets, participants, ruleId, won, i) ==
    IF i > Len(bets) THEN <<>>
    ELSE LET index == FindIndex(IdsOf(participants), bets[i].odrederId)
             rest == Partition(bets, participants, ruleId, won, i + 1)
         IN IF index # 0 /\ ((bets[i].ruleId = ruleId) = won)
            THEN <<participants[index]>> \o rest
            ELSE rest

\* faulty variant of select_winner: the settled bets are dropped
select_winnerDropsBets(s, r, ruleId) ==
    /\ s \in live
    /\ Tick
    /\ last' = Event("select_winner", s, r, [ruleId |-> ruleId])
    /\ IF ~IsBetting(r) THEN sent' = <<>> /\ UNCHANGED rooms
       ELSE IF ~IsHost(s, rooms[r])
       THEN sent' = <<ErrorMessage(s, "host_only_select_winner")>> /\ UNCHANGED rooms
       ELSE LET bets == rooms[r].bettingState[1].bets
                winners == Partition(bets, rooms[r].participants, ruleId, TRUE, 1)
                losers == Partition(bets, rooms[r].participants, ruleId, FALSE, 1)
            IN /\ rooms' = [rooms EXCEPT ![r].bettingState[1].winningRuleId = Some(ruleId),
                                         ![r].bettingState[1].bets = <<>>]
               /\ sent' = <<BroadcastBetting(r),
                            ToRoom(sioRooms[r], r, "betting_result",
                                   [winningRuleId |-> ruleId, winners |-> winners, losers |-> losers])>>
    /\ UNCHANGED <<roomOrder, sioRooms, live, gone>>

(* socket.on('select_winner') *)
select_winner(s, r, ruleId) ==
    /\ s \in live
    /\ Tick
    /\ last' = Event("select_winner", s, r, [ruleId |-> ruleId])
    /\ IF ~IsBetting(r) THEN sent' = <<>> /\ UNCHANGED rooms
       ELSE IF ~IsHost(s, rooms[r])
       THEN sent' = <<ErrorMessage(s, "host_only_select_winner")>> /\ UNCHANGED rooms
       ELSE LET bets == rooms[r].bettingState[1].bets
                winners == Partition(bets, rooms[r].participants, ruleId, TRUE, 1)
                losers == Partition(bets, rooms[r].participants, ruleId, FALSE, 1)
            IN /\ rooms' = [rooms EXCEPT ![r].bettingState[1].winningRuleId = Some(ruleId)]
               /\ sent' = <<BroadcastBetting(r),
                            ToRoom(sioRooms[r], r, "betting_result",
                                   [winningRuleId |-> ruleId, winners |-> winners, losers |-> losers])>>
    /\ UNCHANGED <<roomOrder, sioRooms, live, gone>>

\* faulty variant of reset_betting: the title goes back to the default too
reset_bettingDefaultTitle(s, r) ==
    /\ s \in live
    /\ Tick
    /\ last' = Event("reset_betting", s, r, NoBody)
    /\ IF ~IsBetting(r) THEN sent' = <<>> /\ UNCHANGED rooms
       ELSE IF ~IsHost(s, rooms[r])
       THEN sent' = <<ErrorMessage(s, "host_only_reset_betting")>> /\ UNCHANGED rooms
       ELSE /\ rooms' = [rooms EXCEPT ![r].bettingState =
                             Some([bets |-> <<>>, bettingOpen |-> TRUE,
                                   bettingTitle |-> "naegi", winningRuleId |-> None])]
            /\ sent' = <<BroadcastBetting(r)>>
    /\ UNCHANGED <<roomOrder, sioRooms, live, gone>>

(* socket.on('reset_betting') *)
reset_betting(s, r) ==
    /\ s \in live
    /\ Tick
    /\ last' = Event("reset_betting", s, r, NoBody)
    /\ IF ~IsBetting(r) THEN sent' = <<>> /\ UNCHANGED rooms
       ELSE IF ~IsHost(s, rooms[r])
       THEN sent' = <<ErrorMessage(s, "host_only_reset_betting")>> /\ UNCHANGED rooms
       ELSE /\ rooms' = [rooms EXCEPT ![r].bettingState =
                             Some([bets |-> <<>>, bettingOpen |-> TRUE,
                                   bettingTitle |-> @[1].bettingTitle, winningRuleId |-> None])]
            /\ sent' = <<BroadcastBetting(r)>>
    /\ UNCHANGED <<roomOrder, sioRooms, live, gone>>

(* ---- the events one client can send about one room, by kind ---- *)
Membership(s, r) ==
    \/ \E t \in RoomTypeInputs : join_room(s, r, UserNameOf[s], t)
    \/ \E u \in SocketIds : kick_user(s, r, u)
    \/ destroy_room(s, r)

Queries(s, r) ==
    \/ request_host_status(s, r)
    \/ request_room_sync(s, r)

Relays(s, r) ==
    \/ send_emoticon(s, r)
    \/ send_chat(s, r)

Round(s, r) ==
    \/ \E x \in RuleInputs : create_rule(s, r, x)
    \/ \E x \in Seeds : start_game(s, r, x)
    \/ \E x \in ResultInputs : report_result(s, r, x)
    \/ clear_results(s, r)
    \/ game_finished(s, r)

Settings(s, r) ==
    \/ \E m \in GameModes : set_game_mode(s, r, m)
    \/ \E d \in DrawingInputs : draw_object(s, r, d)

Betting(s, r) ==
    \/ \E x \in TitleInputs : set_betting_title(s, r, x)
    \/ \E x \in RuleIds : place_bet(s, r, x)
    \/ close_betting(s, r)
    \/ \E x \in RuleIds : select_winner(s, r, x)
    \/ reset_betting(s, r)

Connect == \E i \in 1..Len(SocketOrder) : connection(i)

(* every handler, every client, every room name *)
Next ==
    \/ Connect
    \/ \E s \in SocketIds, r \in RoomNames :
          \/ Membership(s, r)
          \/ Queries(s, r)
          \/ Relays(s, r)
          \/ Round(s, r)
          \/ Settings(s, r)
          \/ Betting(s, r)
    \/ \E s \in SocketIds : disconnect(s)

Spec == Init /\ [][Next]_vars

(* joins, kicks, destroys and disconnects, with the queries *)
InitMembership == InitWith(MaxMembershipSteps)

NextMembership ==
    \/ Connect
    \/ \E s \in SocketIds, r \in RoomNames : Membership(s, r) \/ Queries(s, r)
    \/ \E s \in SocketIds : disconnect(s)

SpecMembership == InitMembership /\ [][NextMembership]_vars

(* one roulette room: joins, kicks, disconnects, drawings and the round *)
InitRound == InitWith(MaxRoundSteps)

NextRound ==
    \/ Connect
    \/ \E s \in SocketIds :
          \/ join_room(s, "A", UserNameOf[s], "")
          \/ Round(s, "A")
          \/ \E d \in DrawingInputs : draw_object(s, "A", d)
          \/ request_room_sync(s, "A")
          \/ \E u \in SocketIds : kick_user(s, "A", u)
          \/ disconnect(s)

SpecRound == InitRound /\ [][NextRound]_vars

(* one betting room: joins, kicks, disconnects and the betting events *)
InitBetting == InitWith(MaxBettingSteps)

NextBetting ==
    \/ Connect
    \/ \E s \in SocketIds :
          \/ join_room(s, "A", UserNameOf[s], "betting")
          \/ Betting(s, "A")
          \/ \E u \in SocketIds : kick_user(s, "A", u)
          \/ disconnect(s)

SpecBetting == InitBetting /\ [][NextBetting]_vars

(* ---- one browser tab and the server ---- *)

\* the socket of the tab, and the room it asks for
ClientId == "s2"
ClientRoom == "A"

\* the events whose listeners write isHost or hostId, or end the page
TabEvents == {"host_status", "room_sync", "kicked", "room_destroyed"}

\* the emits of one handler run that travel to the tab, each tagged with the
\* event the handler served
Inbound(msgs, op) ==
    LET mine == SelectSeq(msgs, LAMBDA m : ClientId \in m.to /\ m.ev \in TabEvents)
    IN [i \in 1..Len(mine) |-> [ev |-> mine[i].ev, body |-> mine[i].body, re |-> op]]

\* a closed page receives nothing
Received(tab, msgs, op) ==
    IF tab.pc \in {"landing", "joined", "room"}
    THEN [tab EXCEPT !.inbox = @ \o Inbound(msgs, op)]
    ELSE tab

\* App: handleHostStatus, setHostStatus({ isHost, hostId })
handleHostStatus(tab, body) == [tab EXCEPT !.app = [isHost |-> body.isHost, hostId |-> body.hostId]]

\* Room: socket.on('host_status'), setIsHost(hostStatus); setHostId(id)
RoomOnHostStatus(tab, body) == [tab EXCEPT !.isHost = body.isHost, !.hostId = body.hostId]

\* faulty variant of RoomOnRoomSync: isHost is read off the host id the page
\* already shows
RoomOnRoomSyncByShownHost(tab, data) == [tab EXCEPT !.hostId = data.hostId, !.isHost = (tab.hostId = data.hostId)]

\* Room: socket.on('room_sync'), setHostId(data.hostId);
\* setIsHost(socket.id === data.hostId)
RoomOnRoomSync(tab, data) == [tab EXCEPT !.hostId = data.hostId, !.isHost = (ClientId = data.hostId)]

\* Room: useEffect on [initialHostStatus?.isHost, initialHostStatus?.hostId]
RoomPropEffect(tab) ==
    IF tab.app.isHost \/ tab.app.hostId # ""
    THEN [tab EXCEPT !.isHost = tab.app.isHost, !.hostId = tab.app.hostId, !.seen = tab.app]
    ELSE [tab EXCEPT !.seen = tab.app]

\* the tab after its listeners have handled message m
Handled(tab, m) ==
    LET atApp == IF m.ev = "host_status" THEN handleHostStatus(tab, m.body) ELSE tab
    IN IF tab.pc # "room" THEN atApp
       ELSE IF m.ev = "host_status"
       THEN [RoomOnHostStatus(atApp, m.body) EXCEPT !.answered = @ \cup {m.re}]
       ELSE IF m.ev = "room_sync"
       THEN [RoomOnRoomSync(atApp, m.body) EXCEPT !.answered = @ \cup {m.re}]
       ELSE [atApp EXCEPT !.pc = "reloaded", !.outbox = <<>>]

ServerUnchanged == UNCHANGED <<rooms, roomOrder, sioRooms, live, gone, sent, last, budget>>

(* App: handleJoin, on a socket that is connected *)
handleJoin ==
    /\ client.pc = "landing"
    /\ ClientId \in live
    /\ client' = [client EXCEPT !.pc = "joined", !.outbox = Append(@, "join_room")]
    /\ ServerUnchanged

(* Room is mounted: useState from the prop, the listeners are registered, *)
(* request_host_status and request_room_sync are emitted                  *)
Mount ==
    /\ client.pc = "joined"
    /\ client' = [client EXCEPT !.pc = "room",
                                !.isHost = client.app.isHost,
                                !.hostId = client.app.hostId,
                                !.seen = client.app,
                                !.outbox = @ \o <<"request_host_status", "request_room_sync">>]
    /\ ServerUnchanged

(* the next message of the socket reaches the listeners *)
Deliver ==
    /\ client.pc \in {"landing", "joined", "room"}
    /\ client.inbox # <<>>
    /\ client' = [Handled(client, Head(client.inbox)) EXCEPT !.inbox = Tail(client.inbox)]
    /\ ServerUnchanged

(* the prop of Room has changed and its effect runs *)
PropEffect ==
    /\ client.pc = "room"
    /\ client.app # client.seen
    /\ client' = RoomPropEffect(client)
    /\ ServerUnchanged

\* the server handles the next emit of the tab
Served(tab) == Received([tab EXCEPT !.outbox = Tail(@)], sent', last'.op)

ServeJoin ==
    /\ client.outbox # <<>> /\ Head(client.outbox) = "join_room"
    /\ join_room(ClientId, ClientRoom, UserNameOf[ClientId], "")
    /\ client' = Served(client)

ServeHostStatus ==
    /\ client.outbox # <<>> /\ Head(client.outbox) = "request_host_status"
    /\ request_host_status(ClientId, ClientRoom)
    /\ client' = Served(client)

ServeRoomSync ==
    /\ client.outbox # <<>> /\ Head(client.outbox) = "request_room_sync"
    /\ request_room_sync(ClientId, ClientRoom)
    /\ client' = Served(client)

\* the page is gone (closed, or reloaded by a listener) and the socket closes
Close ==
    /\ disconnect(ClientId)
    /\ client' = [client EXCEPT !.pc = "reloaded", !.inbox = <<>>, !.outbox = <<>>]

\* the other connections join, leave, kick and destroy
OtherJoins(s) == join_room(s, ClientRoom, UserNameOf[s], "") /\ client' = Received(client, sent', last'.op)
OtherLeaves(s) == disconnect(s) /\ client' = Received(client, sent', last'.op)
OtherKicks(s) == kick_user(s, ClientRoom, ClientId) /\ client' = Received(client, sent', last'.op)
OtherDestroys(s) == destroy_room(s, ClientRoom) /\ client' = Received(client, sent', last'.op)

\* the server after start-up, and a tab that shows the landing page
InitClient ==
    /\ rooms = <<>>
    /\ roomOrder = <<>>
    /\ sioRooms = [r \in RoomNames |-> {}]
    /\ live = {}
    /\ gone = {}
    /\ sent = <<>>
    /\ last = Event("init", "", "", NoBody)
    /\ budget = MaxClientSteps
    /\ client = [NoClient EXCEPT !.pc = "landing"]

NextClient ==
    \/ Connect
    \/ handleJoin
    \/ Mount
    \/ Deliver
    \/ PropEffect
    \/ ServeJoin
    \/ ServeHostStatus
    \/ ServeRoomSync
    \/ Close
    \/ \E s \in SocketIds \ {ClientId} :
          \/ OtherJoins(s)
          \/ OtherLeaves(s)
          \/ OtherKicks(s)
          \/ OtherDestroys(s)

SpecClient == InitClient /\ [][NextClient]_vars

(* ---- properties ---- *)

\* how many of the emits msgs with event ev reach connection c
Delivered(msgs, c, ev) ==
    Cardinality({i \in 1..Len(msgs) : msgs[i].ev = ev /\ c \in msgs[i].to})

\* the connections that some emit of msgs reaches
Recipients(msgs) == UNION {msgs[i].to : i \in 1..Len(msgs)}

PrivilegedOps ==
    {"set_game_mode", "create_rule", "start_game", "kick_user", "destroy_room",
     "clear_results", "game_finished", "set_betting_title", "close_betting",
     "select_winner", "reset_betting"}

\* the step handles a privileged action for an existing room, sent by a non-host
NonHostPrivilegedStep ==
    /\ last'.op \in PrivilegedOps
    /\ last'.room \in DOMAIN rooms
    /\ last'.sock # rooms[last'.room].hostId

(* C1: from the join_room that creates a room until the room is deleted,   *)
(* hostId is the id of the connection whose join created it: a room that   *)
(* appears is created by a join_room for that name and gets the joiner as  *)
(* host, and no step changes the hostId of a room that stays in the store. *)
C1_HostIdFixed ==
    [][\A r \in DOMAIN rooms' :
          IF r \in DOMAIN rooms
          THEN rooms'[r].hostId = rooms[r].hostId
          ELSE /\ last'.op = "join_room"
               /\ last'.room = r
               /\ rooms'[r].hostId = last'.sock]_vars

\* the host has kicked another participant and is still the host
C1_Witness ==
    /\ last.op = "kick_user"
    /\ last.room \in DOMAIN rooms
    /\ Len(sent) = 3
    /\ rooms[last.room].hostId = last.sock
    /\ Len(rooms[last.room].participants) >= 1

(* C2: in every reachable state the hostId of every room of the store is   *)
(* the id of an entry of that room's participants.                         *)
C2_HostIsParticipant ==
    \A r \in DOMAIN rooms : rooms[r].hostId \in Ids(rooms[r].participants)

\* a non-host has disconnected from a room that goes on existing
C2_Witness ==
    /\ last.op = "disconnect"
    /\ \E r \in DOMAIN rooms :
          /\ rooms[r].hostId # last.sock
          /\ \E i \in 1..Len(sent) : sent[i].ev = "participant_list" /\ sent[i].room = r

(* C3: a privileged action sent for an existing room by a connection that  *)
(* is not its host leaves the room store unchanged and delivers nothing to *)
(* any connection other than the requester.                                *)
C3_NonHostRejected ==
    [][NonHostPrivilegedStep =>
          /\ rooms' = rooms
          /\ roomOrder' = roomOrder
          /\ Recipients(sent') \subseteq {last'.sock}]_vars

\* a participant who is not the host asked to destroy a room with two members
C3_Witness ==
    /\ last.op = "destroy_room"
    /\ last.room \in DOMAIN rooms
    /\ last.sock # rooms[last.room].hostId
    /\ last.sock \in Ids(rooms[last.room].participants)
    /\ Delivered(sent, last.sock, "error_message") = 1

(* C4 as claimed: every privileged action sent for an existing room by a   *)
(* non-host is answered with exactly one error_message to the requester.   *)
C4_NonHostGetsOneError ==
    [][NonHostPrivilegedStep => Delivered(sent', last'.sock, "error_message") = 1]_vars

(* C5: after the host's destroy_room for an existing room R, R is absent   *)
(* from the store and every connection that was a participant of R, and is *)
(* still open, has been sent exactly one room_destroyed by this action.    *)
C5_DestroyIsTotal ==
    [][(/\ last'.op = "destroy_room"
        /\ last'.room \in DOMAIN rooms
        /\ last'.sock = rooms[last'.room].hostId)
       => /\ last'.room \notin DOMAIN rooms'
          /\ \A c \in Ids(rooms[last'.room].participants) \cap live :
                Delivered(sent', c, "room_destroyed") = 1]_vars

\* a room with at least two connected members has just been destroyed
C5_Witness ==
    /\ last.op = "destroy_room"
    /\ last.room \notin DOMAIN rooms
    /\ Len(sent) = 1
    /\ sent[1].ev = "room_destroyed"
    /\ Cardinality(sent[1].to) >= 2

(* C6: when the host of a room R disconnects, in that same step R leaves   *)
(* the store (so no other participant becomes host) and every remaining    *)
(* participant that is connected is sent room_destroyed for R, whatever    *)
(* the status of R and however many participants remain.                   *)
C6_HostDisconnectDestroys ==
    [][last'.op = "disconnect" =>
          \A r \in DOMAIN rooms :
             (rooms[r].hostId = last'.sock /\ last'.sock \in Ids(rooms[r].participants))
             => /\ r \notin DOMAIN rooms'
                /\ \A c \in (Ids(rooms[r].participants) \cap live) \ {last'.sock} :
                      \E i \in 1..Len(sent') :
                         /\ sent'[i].ev = "room_destroyed"
                         /\ sent'[i].room = r
                         /\ c \in sent'[i].to]_vars

\* the host left while two others remained: both got room_destroyed
C6_Witness ==
    /\ last.op = "disconnect"
    /\ DOMAIN rooms = {}
    /\ \E i \in 1..Len(sent) :
          /\ sent[i].ev = "room_destroyed"
          /\ Cardinality(sent[i].to) = 2

(* C7: in every reachable state no two entries of a room's gameResults     *)
(* have the same participantId.                                            *)
C7_OneResultPerParticipant ==
    \A r \in DOMAIN rooms :
       \A i, j \in 1..Len(rooms[r].gameResults) :
          rooms[r].gameResults[i].participantId = rooms[r].gameResults[j].participantId
          => i = j

\* a second, different report for a participant that already has a result
C7_Witness ==
    /\ last.op = "report_result"
    /\ last.room \in DOMAIN rooms
    /\ \E i \in 1..Len(rooms[last.room].gameResults) :
          /\ rooms[last.room].gameResults[i].participantId = last.arg.result.participantId
          /\ rooms[last.room].gameResults[i] # last.arg.result

\* report_result is accepted in the state before the step
ReportAccepted(s, r, result) ==
    /\ r \in DOMAIN rooms
    /\ (rooms[r].status = "playing" \/ s = rooms[r].hostId)
    /\ \A i \in 1..Len(rooms[r].gameResults) :
          rooms[r].gameResults[i].participantId # result.participantId

(* C8: report_result appends the result to gameResults exactly when the    *)
(* room exists, status is playing or the sender is the host, and no entry  *)
(* has that participantId; otherwise the store is unchanged; nothing is    *)
(* emitted in either case.                                                 *)
C8_ReportResult ==
    [][last'.op = "report_result" =>
          /\ sent' = <<>>
          /\ IF ReportAccepted(last'.sock, last'.room, last'.arg.result)
             THEN rooms' = [rooms EXCEPT ![last'.room].gameResults =
                                Append(@, last'.arg.result)]
             ELSE rooms' = rooms]_vars

\* a non-host's report was recorded during play, after an earlier result
C8_Witness ==
    /\ last.op = "report_result"
    /\ last.room \in DOMAIN rooms
    /\ last.sock # rooms[last.room].hostId
    /\ rooms[last.room].status = "playing"
    /\ Len(rooms[last.room].gameResults) = 2
    /\ rooms[last.room].gameResults[2] = last.arg.result

(* C9: a request_room_sync for an existing room is answered by one         *)
(* room_sync to the requester whose nine fields equal the room's fields in *)
(* the store when the request is handled.                                  *)
C9_SyncIsSnapshot ==
    (last.op = "request_room_sync" /\ last.room \in DOMAIN rooms) =>
       /\ Len(sent) = 1
       /\ sent[1].ev = "room_sync"
       /\ sent[1].to = {last.sock}
       /\ LET room == rooms[last.room]
              body == sent[1].body
          IN /\ body.participants = room.participants
             /\ body.rules = room.rules
             /\ body.drawings = room.drawings
             /\ body.gameMode = room.gameMode
             /\ body.status = room.status
             /\ body.hostId = room.hostId
             /\ body.gameResults = room.gameResults
             /\ body.roomType = room.roomType
             /\ body.bettingState = room.bettingState

\* a sync of a room that already holds a result
C9_Witness ==
    /\ last.op = "request_room_sync"
    /\ last.room \in DOMAIN rooms
    /\ Len(rooms[last.room].gameResults) = 1
    /\ Len(sent) = 1

\* the step answers a request_host_status for an existing room
HostStatusStep ==
    /\ last'.op = "request_host_status"
    /\ last'.room \in DOMAIN rooms

(* C10: a request_host_status for an existing room is answered by exactly  *)
(* one host_status, to the requester, with hostId = room.hostId and isHost *)
(* = (requester = room.hostId); the same request repeated with nothing in  *)
(* between gets the same answer.                                           *)
C10_HostStatusAnswer ==
    [][HostStatusStep =>
          /\ Len(sent') = 1
          /\ sent'[1].ev = "host_status"
          /\ sent'[1].to = {last'.sock}
          /\ sent'[1].body.hostId = rooms[last'.room].hostId
          /\ sent'[1].body.isHost = (last'.sock = rooms[last'.room].hostId)
          /\ (last.op = "request_host_status" /\ last.sock = last'.sock /\ last.room = last'.room)
             => sent' = sent]_vars

\* a participant who is not the host asked and was told so
C10_Witness ==
    /\ last.op = "request_host_status"
    /\ last.room \in DOMAIN rooms
    /\ last.sock \in Ids(rooms[last.room].participants)
    /\ Len(sent) = 1
    /\ sent[1].body.isHost = FALSE
    /\ sent[1].body.hostId # last.sock

\* the step handles one of the two read-only requests
QueryStep == last'.op \in {"request_room_sync", "request_host_status"}

(* C11: request_room_sync and request_host_status leave the whole room     *)
(* store unchanged and send no message to any connection other than the    *)
(* requester.                                                              *)
C11_QueriesReadOnly ==
    [][QueryStep =>
          /\ rooms' = rooms
          /\ roomOrder' = roomOrder
          /\ Recipients(sent') \subseteq {last'.sock}]_vars

\* a request was answered in a room that has another member, who got nothing
C11_Witness ==
    /\ last.op \in {"request_room_sync", "request_host_status"}
    /\ last.room \in DOMAIN rooms
    /\ sioRooms[last.room] \ {last.sock} # {}
    /\ Recipients(sent) = {last.sock}

\* the status edges of the room lifecycle, each with the event that takes it
LifecycleEdges ==
    {<<"waiting", "playing", "start_game">>,
     <<"playing", "finished", "game_finished">>,
     <<"finished", "waiting", "clear_results">>,
     <<"playing", "waiting", "clear_results">>}

(* C12: every change of a room's status is one of the lifecycle edges      *)
(* waiting -> playing (start_game), playing -> finished (game_finished),   *)
(* finished -> waiting or playing -> waiting (clear_results); start_game   *)
(* moves the room to playing only from waiting and game_finished moves it  *)
(* to finished only from playing.                                          *)
C12_LifecycleEdgesOnly ==
    [][\A r \in DOMAIN rooms \cap DOMAIN rooms' :
          rooms'[r].status # rooms[r].status =>
              <<rooms[r].status, rooms'[r].status, last'.op>> \in LifecycleEdges]_vars

\* the step handles a start_game sent by the host of a room that has no rule
HostStartWithoutRulesStep ==
    /\ last'.op = "start_game"
    /\ last'.room \in DOMAIN rooms
    /\ last'.sock = rooms[last'.room].hostId
    /\ Len(rooms[last'.room].rules) = 0

(* C13: a start_game sent by the host while the room has zero rules is     *)
(* rejected: the host receives one error_message, status is unchanged and  *)
(* no game_started is delivered to anyone; consequently a room enters      *)
(* status playing only while its rules has at least one entry.             *)
C13_StartNeedsRule ==
    [][/\ HostStartWithoutRulesStep =>
             /\ Delivered(sent', last'.sock, "error_message") = 1
             /\ rooms'[last'.room].status = rooms[last'.room].status
             /\ \A c \in SocketIds : Delivered(sent', c, "game_started") = 0
       /\ \A r \in DOMAIN rooms' :
             (rooms'[r].status = "playing" /\ (r \in DOMAIN rooms => rooms[r].status # "playing"))
                 => Len(rooms'[r].rules) >= 1]_vars

\* the host of a room without rules asked to start and got an error
C13_Witness ==
    /\ last.op = "start_game"
    /\ last.room \in DOMAIN rooms
    /\ last.sock = rooms[last.room].hostId
    /\ Len(rooms[last.room].rules) = 0
    /\ rooms[last.room].status = "waiting"
    /\ Delivered(sent, last.sock, "error_message") = 1

\* the step handles a clear_results sent by the host of an existing room
HostClearStep ==
    /\ last'.op = "clear_results"
    /\ last'.room \in DOMAIN rooms
    /\ last'.sock = rooms[last'.room].hostId

(* C14: a clear_results sent by the host, from any status, leaves the room *)
(* with status waiting, gameResults empty and drawings empty, delivers     *)
(* game_reset to every member of the room, and leaves participants, rules, *)
(* hostId, gameMode, roomType and bettingState unchanged.                  *)
C14_ClearResults ==
    [][HostClearStep =>
          LET r == last'.room
          IN /\ r \in DOMAIN rooms'
             /\ rooms'[r].status = "waiting"
             /\ rooms'[r].gameResults = <<>>
             /\ rooms'[r].drawings = <<>>
             /\ \A c \in Ids(rooms[r].participants) \cap live :
                   Delivered(sent', c, "game_reset") = 1
             /\ rooms'[r].participants = rooms[r].participants
             /\ rooms'[r].rules = rooms[r].rules
             /\ rooms'[r].hostId = rooms[r].hostId
             /\ rooms'[r].gameMode = rooms[r].gameMode
             /\ rooms'[r].roomType = rooms[r].roomType
             /\ rooms'[r].bettingState = rooms[r].bettingState]_vars

\* the host reset a room that has a rule and a second member, who was told
C14_Witness ==
    /\ last.op = "clear_results"
    /\ last.room \in DOMAIN rooms
    /\ last.sock = rooms[last.room].hostId
    /\ Len(rooms[last.room].rules) >= 1
    /\ rooms[last.room].status = "waiting"
    /\ \E c \in Ids(rooms[last.room].participants) \ {last.sock} :
          Delivered(sent, c, "game_reset") = 1

(* C15: while a room exists, its status leaves playing only through a host *)
(* game_finished or a host clear_results: no join, non-host disconnect,    *)
(* kick, report_result, repeated start_game or non-host message changes a  *)
(* playing room's status, and nothing happens by timeout.                  *)
C15_PlayingLeftByHostOnly ==
    [][\A r \in DOMAIN rooms \cap DOMAIN rooms' :
          (rooms[r].status = "playing" /\ rooms'[r].status # "playing") =>
              /\ last'.op \in {"game_finished", "clear_results"}
              /\ last'.room = r
              /\ last'.sock = rooms[r].hostId]_vars

\* a round is on with a second participant in the room and a result in
C15_Witness ==
    /\ "A" \in DOMAIN rooms
    /\ rooms["A"].status = "playing"
    /\ Len(rooms["A"].participants) >= 2
    /\ Len(rooms["A"].gameResults) >= 1
    /\ last.op = "report_result"
    /\ last.sock # rooms["A"].hostId

\* the step handles a select_winner sent by the host of a betting room
HostSelectStep ==
    /\ last'.op = "select_winner"
    /\ IsBetting(last'.room)
    /\ last'.sock = rooms[last'.room].hostId

\* the bettors of the room whose id is the id of some entry of participants
CurrentBettors(room) ==
    {room.bettingState[1].bets[i].odrederId : i \in 1..Len(room.bettingState[1].bets)}
        \cap Ids(room.participants)

\* winners and losers of the broadcast result split the current bettors by
\* the rule they bet on
ResultSplitsCurrentBettors ==
    LET room == rooms[last'.room]
        bets == room.bettingState[1].bets
        result == sent'[2].body
        winners == Ids(result.winners)
        losers == Ids(result.losers)
    IN /\ Len(sent') = 2
       /\ sent'[2].ev = "betting_result"
       /\ sent'[2].to = sioRooms[last'.room]
       /\ winners \cup losers = CurrentBettors(room)
       /\ \A i \in 1..Len(bets) :
             bets[i].odrederId \in Ids(room.participants) =>
                 /\ bets[i].odrederId \in winners <=> bets[i].ruleId = last'.arg.ruleId
                 /\ bets[i].odrederId \in losers <=> bets[i].ruleId # last'.arg.ruleId

\* nobody whose connection is closed is among the winners or the losers
ResultOmitsTheGone ==
    LET result == sent'[2].body
    IN (Ids(result.winners) \cup Ids(result.losers)) \cap gone = {}

(* C16: after a host select_winner(ruleId) in a betting room, the          *)
(* participants in winners and losers of the broadcast betting_result are  *)
(* the bettors whose id is a current participant, a bettor is in winners   *)
(* exactly when its bet is on ruleId and in losers otherwise, and a bettor *)
(* who has left (disconnected or kicked) appears in neither list.          *)
C16_WinnersAndLosers ==
    [][HostSelectStep => ResultSplitsCurrentBettors /\ ResultOmitsTheGone]_vars

\* no two bets of the array have the same bettor
OneBetPerBettor(bets) ==
    \A i, j \in 1..Len(bets) : bets[i].odrederId = bets[j].odrederId => i = j

\* the step handles a place_bet that the server accepts
AcceptedBetStep ==
    /\ last'.op = "place_bet"
    /\ IsBetting(last'.room)
    /\ rooms[last'.room].bettingState[1].bettingOpen
    /\ last'.sock \in Ids(rooms[last'.room].participants)

(* C17: in every reachable state of a betting room, bets holds at most one *)
(* bet per bettor id; a place_bet by a participant who already has a bet   *)
(* replaces that bet (the old one is removed, the new one is appended) and *)
(* leaves all other bettors' bets unchanged.                               *)
C17_OneBetPerBettor ==
    [][/\ \A r \in DOMAIN rooms' :
             rooms'[r].bettingState # None => OneBetPerBettor(rooms'[r].bettingState[1].bets)
       /\ AcceptedBetStep =>
             LET s == last'.sock
                 before == rooms[last'.room].bettingState[1].bets
                 after == rooms'[last'.room].bettingState[1].bets
                 others == SelectSeq(before, LAMBDA b : b.odrederId # s)
             IN /\ Len(after) = Len(others) + 1
                /\ SubSeq(after, 1, Len(others)) = others
                /\ after[Len(after)].odrederId = s
                /\ after[Len(after)].ruleId = last'.arg.ruleId]_vars

\* two bettors have a bet each and the one who bet last is the host, on r2
C17_Witness ==
    /\ last.op = "place_bet"
    /\ IsBetting(last.room)
    /\ LET bets == rooms[last.room].bettingState[1].bets
       IN /\ Len(bets) = 2
          /\ bets[1].odrederId # last.sock
          /\ bets[2].odrederId = last.sock
          /\ bets[2].ruleId = "r2"

\* the step handles a place_bet for a betting room that is closed, or that
\* comes from a connection with no entry in the room's participants
RefusedBetStep ==
    /\ last'.op = "place_bet"
    /\ IsBetting(last'.room)
    /\ \/ ~rooms[last'.room].bettingState[1].bettingOpen
       \/ last'.sock \notin Ids(rooms[last'.room].participants)

(* C18: a place_bet received while bettingOpen is false, or from a         *)
(* connection that is not a current participant of the room, is rejected:  *)
(* bettingState is unchanged, the requester receives one error_message and *)
(* no betting_state_updated is broadcast.                                  *)
C18_BetRefused ==
    [][RefusedBetStep =>
          /\ rooms'[last'.room].bettingState = rooms[last'.room].bettingState
          /\ Delivered(sent', last'.sock, "error_message") = 1
          /\ \A c \in SocketIds : Delivered(sent', c, "betting_state_updated") = 0]_vars

\* a participant bet after the host closed the betting, and got an error
C18_Witness ==
    /\ last.op = "place_bet"
    /\ IsBetting(last.room)
    /\ ~rooms[last.room].bettingState[1].bettingOpen
    /\ last.sock \in Ids(rooms[last.room].participants)
    /\ last.sock # rooms[last.room].hostId
    /\ Delivered(sent, last.sock, "error_message") = 1

\* the step handles a reset_betting sent by the host of a betting room
HostResetStep ==
    /\ last'.op = "reset_betting"
    /\ IsBetting(last'.room)
    /\ last'.sock = rooms[last'.room].hostId

(* C19: after a host reset_betting, bettingState has empty bets,           *)
(* bettingOpen = true, no winningRuleId and the same bettingTitle as       *)
(* before the reset; the new state is broadcast to the room.               *)
C19_ResetBetting ==
    [][HostResetStep =>
          LET r == last'.room
              after == rooms'[r].bettingState[1]
          IN /\ rooms'[r].bettingState # None
             /\ after.bets = <<>>
             /\ after.bettingOpen = TRUE
             /\ after.winningRuleId = None
             /\ after.bettingTitle = rooms[r].bettingState[1].bettingTitle
             /\ Len(sent') = 1
             /\ sent'[1].ev = "betting_state_updated"
             /\ sent'[1].to = sioRooms[r]
             /\ sent'[1].body.bettingState = after]_vars

\* the host reset a betting whose title had been set; a second member was told
C19_Witness ==
    /\ last.op = "reset_betting"
    /\ IsBetting(last.room)
    /\ last.sock = rooms[last.room].hostId
    /\ rooms[last.room].bettingState[1].bettingTitle = "t1"
    /\ rooms[last.room].bettingState[1].bets = <<>>
    /\ \E c \in Ids(rooms[last.room].participants) \ {last.sock} :
          Delivered(sent, c, "betting_state_updated") = 1

\* the step handles a kick_user by which the host of a room targets itself
HostKicksSelfStep ==
    /\ last'.op = "kick_user"
    /\ last'.room \in DOMAIN rooms
    /\ last'.sock = rooms[last'.room].hostId
    /\ last'.arg.userId = last'.sock

(* C20: a kick_user by the host that targets the host's own id is          *)
(* rejected: the host receives one error_message, participants is          *)
(* unchanged, the room still exists, and no kicked or participant_list     *)
(* message is sent.                                                        *)
C20_HostCannotKickSelf ==
    [][HostKicksSelfStep =>
          /\ Delivered(sent', last'.sock, "error_message") = 1
          /\ last'.room \in DOMAIN rooms'
          /\ rooms'[last'.room].participants = rooms[last'.room].participants
          /\ \A i \in 1..Len(sent') : sent'[i].ev \notin {"kicked", "participant_list"}]_vars

\* the host of a room with two participants tried to kick itself
C20_Witness ==
    /\ last.op = "kick_user"
    /\ last.room \in DOMAIN rooms
    /\ last.sock = rooms[last.room].hostId
    /\ last.arg.userId = last.sock
    /\ last.sock \in Ids(rooms[last.room].participants)
    /\ Len(rooms[last.room].participants) >= 2
    /\ Len(sent) = 1
    /\ sent[1].ev = "error_message"

\* the step handles a kick_user by which the host of a room targets another
\* connection that has an entry in the room's participants
HostKicksOtherStep ==
    /\ last'.op = "kick_user"
    /\ last'.room \in DOMAIN rooms
    /\ last'.sock = rooms[last'.room].hostId
    /\ last'.arg.userId # last'.sock
    /\ last'.arg.userId \in Ids(rooms[last'.room].participants)

(* C21: after a host kick_user(userId) that targets another current        *)
(* participant, userId no longer appears in participants, the relative     *)
(* order of the remaining participants is preserved, the kicked connection *)
(* receives exactly one kicked message, and the remaining members receive  *)
(* the updated participant list.                                           *)
C21_KickRemoves ==
    [][HostKicksOtherStep =>
          LET r == last'.room
              userId == last'.arg.userId
              after == rooms'[r].participants
          IN /\ userId \notin Ids(after)
             /\ after = SelectSeq(rooms[r].participants, LAMBDA p : p.id # userId)
             /\ Delivered(sent', userId, "kicked") = 1
             /\ \A c \in Ids(after) \cap live :
                   \E i \in 1..Len(sent') :
                       /\ sent'[i].ev = "participant_list"
                       /\ c \in sent'[i].to
                       /\ sent'[i].body.participants = after]_vars

\* the ids in the participants of room r in the room store rms, none if absent
ParticipantsIn(rms, r) == IF r \in DOMAIN rms THEN Ids(rms[r].participants) ELSE {}

(* C22: every broadcast for room R is delivered to exactly the connections *)
(* that are participants of R when it is sent: a connection that was       *)
(* kicked from R, or that belonged to a destroyed room named R, receives   *)
(* no later broadcast of R unless it joins R again. A broadcast can only   *)
(* reach a participant of R before or after the handler, and reaches every *)
(* open connection that is a participant of R after it (before it, when    *)
(* the handler deletes R).                                                 *)
C22_BroadcastToParticipants ==
    [][\A i \in 1..Len(sent') :
          sent'[i].room \in RoomNames =>
              LET r == sent'[i].room
                  before == ParticipantsIn(rooms, r)
                  after == ParticipantsIn(rooms', r)
                  now == IF r \in DOMAIN rooms' THEN after ELSE before
              IN /\ sent'[i].to \subseteq before \cup after
                 /\ now \cap live' \subseteq sent'[i].to]_vars

(* C23: after a connection's disconnect has been processed, that           *)
(* connection id appears in the participants list of no room in the room   *)
(* store, for every prior sequence of joins (joins to several rooms and    *)
(* repeated joins to the same room included).                              *)
C23_DisconnectRemovesAll ==
    [][last'.op = "disconnect" =>
          \A r \in DOMAIN rooms' : last'.sock \notin Ids(rooms'[r].participants)]_vars

\* no two entries of the array have the same id
UniqueIds(participants) ==
    \A i, j \in 1..Len(participants) : participants[i].id = participants[j].id => i = j

(* C24: in every reachable state and for every room, the participants list *)
(* contains no two entries with the same connection id, including after    *)
(* the same connection sends join_room for that room more than once.       *)
C24_UniqueParticipants ==
    \A r \in DOMAIN rooms : UniqueIds(rooms[r].participants)

(* C25: in every reachable state, each connection id appears in the        *)
(* participants list of at most one room.                                  *)
C25_OneRoomPerConnection ==
    \A c \in SocketIds : \A r1, r2 \in DOMAIN rooms :
        (c \in Ids(rooms[r1].participants) /\ c \in Ids(rooms[r2].participants)) => r1 = r2

(* C26: in every reachable state, every room present in the room store has *)
(* at least one participant: a room is deleted in the same step in which   *)
(* its last participant leaves.                                            *)
C26_NoEmptyRoom ==
    \A r \in DOMAIN rooms : Len(rooms[r].participants) >= 1

\* the only member of room A disconnected and the room is gone with it
C26_Witness ==
    /\ last.op = "disconnect"
    /\ "A" \notin DOMAIN rooms
    /\ sioRooms["A"] = {}
    /\ \E i \in 1..Len(sent) : sent[i].room = "A" /\ sent[i].ev = "room_destroyed"

\* sequence a is an initial part of sequence b
IsPrefix(a, b) == Len(a) <= Len(b) /\ SubSeq(b, 1, Len(a)) = a

JoinExistingStep ==
    /\ last'.op = "join_room"
    /\ last'.room \in DOMAIN rooms

RoomOps ==
    {"request_host_status", "set_game_mode", "create_rule", "start_game",
     "send_emoticon", "send_chat", "draw_object", "request_room_sync",
     "report_result", "clear_results", "game_finished", "kick_user",
     "destroy_room", "set_betting_title", "place_bet", "close_betting",
     "select_winner", "reset_betting"}

\* the step handles such an event for a room name that is not in the store
UnknownRoomStep ==
    /\ last'.op \in RoomOps
    /\ last'.room \notin DOMAIN rooms

(* C29: every action other than join_room that names a room absent from    *)
(* the room store is a no-op: the room store is unchanged, no room is      *)
(* created, and no message (not even an error) is sent to any connection.  *)
C29_UnknownRoomNoOp ==
    [][UnknownRoomStep =>
          /\ rooms' = rooms
          /\ roomOrder' = roomOrder
          /\ sent' = <<>>]_vars

\* the host of room A sent an event for room B, which does not exist
C29_Witness ==
    /\ last.op \in RoomOps
    /\ last.room = "B"
    /\ DOMAIN rooms = {"A"}
    /\ last.sock = rooms["A"].hostId
    /\ sent = <<>>

\* the step handles an event of a client that names a room
RoomStep == last'.op \in RoomOps \cup {"join_room"}

\* the rooms other than the one the step names are as they were
OtherRoomsUntouched ==
    \A r \in DOMAIN rooms \ {last'.room} :
        r \in DOMAIN rooms' /\ rooms'[r] = rooms[r]

\* connection c takes part in some room, but not in the one the step names,
\* neither before nor after the step
MemberOfOthersOnly(c) ==
    /\ c \notin ParticipantsIn(rooms, last'.room) \cup ParticipantsIn(rooms', last'.room)
    /\ \E r \in DOMAIN rooms \ {last'.room} : c \in Ids(rooms[r].participants)

(* C30: any action message naming room R, whether accepted or rejected,    *)
(* leaves the state of every other room in the room store unchanged and    *)
(* delivers no message to connections that are members only of other       *)
(* rooms (the requester, who gets the answer to its own request, aside).   *)
C30_OtherRoomsUnaffected ==
    [][RoomStep =>
          /\ OtherRoomsUntouched
          /\ \A c \in SocketIds \ {last'.sock} :
                MemberOfOthersOnly(c) => c \notin Recipients(sent')]_vars

\* the step handles a start_game that the server accepts
AcceptedStartStep ==
    /\ last'.op = "start_game"
    /\ last'.room \in DOMAIN rooms
    /\ last'.sock = rooms[last'.room].hostId
    /\ Len(rooms[last'.room].rules) >= 1

(* C31: for each accepted start_game one seed is chosen and every member   *)
(* of the room receives a game_started carrying that same seed, with       *)
(* status set to playing; no two recipients of the same start see          *)
(* different seeds.                                                        *)
C31_OneSeedForAll ==
    [][AcceptedStartStep =>
          LET r == last'.room
          IN /\ rooms'[r].status = "playing"
             /\ \A c \in Ids(rooms[r].participants) \cap live :
                   Delivered(sent', c, "game_started") = 1
             /\ \A i, j \in 1..Len(sent') :
                   (sent'[i].ev = "game_started" /\ sent'[j].ev = "game_started")
                       => /\ sent'[i].body.seed = sent'[j].body.seed
                          /\ sent'[i].body.seed \in Seeds]_vars

\* a round was started in a room with two members, who both got the seed
C31_Witness ==
    /\ last.op = "start_game"
    /\ last.room \in DOMAIN rooms
    /\ rooms[last.room].status = "playing"
    /\ Len(sent) = 1
    /\ sent[1].ev = "game_started"
    /\ Cardinality(sent[1].to) >= 2
    /\ sent[1].to \subseteq Ids(rooms[last.room].participants)

(* C32: whenever a host start_game is accepted and the room enters a       *)
(* round, gameResults holds no entry recorded before that start, so that   *)
(* in the new round one result per participant can be recorded.            *)
C32_RoundStartsWithoutResults ==
    [][AcceptedStartStep => rooms'[last'.room].gameResults = <<>>]_vars

(* C33: select_winner takes effect only once betting has been closed: a    *)
(* host select_winner while bettingOpen is true does not set winningRuleId *)
(* and broadcasts no betting_result, so once winningRuleId is set no bet   *)
(* can be added or replaced until reset_betting.                           *)
C33_SelectOnlyWhenClosed ==
    [][/\ (HostSelectStep /\ rooms[last'.room].bettingState[1].bettingOpen) =>
             /\ rooms'[last'.room].bettingState = rooms[last'.room].bettingState
             /\ \A i \in 1..Len(sent') : sent'[i].ev # "betting_result"
       /\ \A r \in DOMAIN rooms \cap DOMAIN rooms' :
             (/\ rooms[r].bettingState # None
              /\ rooms[r].bettingState[1].winningRuleId # None
              /\ ~(last'.op = "reset_betting" /\ last'.room = r))
                 => rooms'[r].bettingState[1].bets = rooms[r].bettingState[1].bets]_vars

\* the step handles a reset_betting sent by the host of room r
HostResetOf(r) ==
    /\ last'.op = "reset_betting"
    /\ last'.room = r
    /\ last'.sock = rooms[r].hostId

(* C34: once a host close_betting has set bettingOpen to false,            *)
(* bettingOpen stays false and the bets sequence stays unchanged under     *)
(* every action until a host reset_betting (or the room's deletion); only  *)
(* reset_betting reopens betting.                                          *)
C34_ClosedStaysClosed ==
    [][\A r \in DOMAIN rooms \cap DOMAIN rooms' :
          (/\ rooms[r].bettingState # None
           /\ ~rooms[r].bettingState[1].bettingOpen
           /\ ~HostResetOf(r))
              => /\ rooms'[r].bettingState # None
                 /\ ~rooms'[r].bettingState[1].bettingOpen
                 /\ rooms'[r].bettingState[1].bets = rooms[r].bettingState[1].bets]_vars

\* the host settled a closed betting that holds a bet
C34_Witness ==
    /\ last.op = "select_winner"
    /\ IsBetting(last.room)
    /\ last.sock = rooms[last.room].hostId
    /\ ~rooms[last.room].bettingState[1].bettingOpen
    /\ Len(rooms[last.room].bettingState[1].bets) >= 1
    /\ rooms[last.room].bettingState[1].winningRuleId # None

\* the events that are valid for betting rooms only
BettingOps ==
    {"set_betting_title", "place_bet", "close_betting", "select_winner", "reset_betting"}

\* the step handles a betting event that names a roulette room
BettingOpOnRouletteStep ==
    /\ last'.op \in BettingOps
    /\ last'.room \in DOMAIN rooms
    /\ rooms[last'.room].roomType = "roulette"

(* C35: the betting-only actions set_betting_title, place_bet,             *)
(* close_betting, select_winner and reset_betting sent for a room whose    *)
(* roomType is roulette change no state and send no message, whoever sends *)
(* them; a roulette room never acquires a bettingState.                    *)
C35_BettingOpsNeedBettingRoom ==
    [][/\ BettingOpOnRouletteStep => (rooms' = rooms /\ sent' = <<>>)
       /\ \A r \in DOMAIN rooms' :
             rooms'[r].roomType = "roulette" => rooms'[r].bettingState = None]_vars

\* the host of a roulette room sent it a betting event and nothing happened
C35_Witness ==
    /\ last.op \in BettingOps
    /\ last.room \in DOMAIN rooms
    /\ rooms[last.room].roomType = "roulette"
    /\ last.sock = rooms[last.room].hostId
    /\ rooms[last.room].bettingState = None
    /\ sent = <<>>

\* the host_status that the join_room of the step sent to the joiner says b
JoinerToldHost(b) ==
    /\ Delivered(sent', last'.sock, "host_status") = 1
    /\ \A i \in 1..Len(sent') :
          sent'[i].ev = "host_status" =>
              /\ sent'[i].to = {last'.sock}
              /\ sent'[i].body.isHost = b

(* C36: when two connections race to join the same not-yet-existing room   *)
(* name, then in every interleaving exactly one room is created, its       *)
(* hostId is the connection whose join_room is processed first, both       *)
(* connections end up in participants in processing order, and only the    *)
(* first receives host_status with isHost = true.                          *)
C36_JoinRace ==
    [][last'.op = "join_room" =>
          LET r == last'.room
              entry == [id |-> last'.sock, name |-> last'.arg.userName]
          IN /\ DOMAIN rooms' = DOMAIN rooms \cup {r}
             /\ r \notin DOMAIN rooms =>
                   /\ rooms'[r].hostId = last'.sock
                   /\ rooms'[r].participants = <<entry>>
                   /\ JoinerToldHost(TRUE)
             /\ r \in DOMAIN rooms =>
                   /\ rooms'[r].hostId = rooms[r].hostId
                   /\ rooms'[r].participants = Append(rooms[r].participants, entry)
                   /\ JoinerToldHost(last'.sock = rooms[r].hostId)]_vars

\* s2's join_room was processed before s1's: s2 is the host and comes first
C36_Witness ==
    /\ last.op = "join_room"
    /\ last.sock = "s1"
    /\ last.room \in DOMAIN rooms
    /\ rooms[last.room].hostId = "s2"
    /\ IdsOf(rooms[last.room].participants) = <<"s2", "s1">>
    /\ \E i \in 1..Len(sent) :
          sent[i].ev = "host_status" /\ sent[i].to = {"s1"} /\ sent[i].body.isHost = FALSE

\* the step handles an event for an existing room, join_room excepted, sent
\* by a connection that has no entry in the room's participants
OutsiderStep ==
    /\ last'.op \in RoomOps
    /\ last'.room \in DOMAIN rooms
    /\ last'.sock \notin Ids(rooms[last'.room].participants)

(* C38: a connection that is not a current participant of room R (never    *)
(* joined, or kicked and not rejoined) cannot change R's state: every      *)
(* action it sends for R other than join_room leaves R's drawings,         *)
(* gameResults, bets and all other fields unchanged.                       *)
C38_OutsiderChangesNothing ==
    [][OutsiderStep =>
          /\ last'.room \in DOMAIN rooms'
          /\ rooms'[last'.room] = rooms[last'.room]]_vars

\* the step handles a join_room for a room name that is not in the store
JoinCreatesStep ==
    /\ last'.op = "join_room"
    /\ last'.room \notin DOMAIN rooms

MountRequests == {"request_host_status", "request_room_sync"}

\* the tab shows the room and its listeners have handled every message sent
\* to it, the answers to both of its requests among them
HostViewSettled ==
    /\ client.pc = "room"
    /\ client.inbox = <<>>
    /\ MountRequests \subseteq client.answered

\* C37: once the answers to the request_host_status and the request_room_sync
\* that Room sends after registering its listeners have been handled, and the
\* room still exists, the page's isHost is (socket id = room.hostId) and its
\* hostId is room.hostId, whether the host_status of the join reached the page
\* before or after Room was mounted
C37_HostViewAgrees ==
    (HostViewSettled /\ Has(ClientRoom)) =>
        /\ client.isHost = (ClientId = rooms[ClientRoom].hostId)
        /\ client.hostId = rooms[ClientRoom].hostId

\* a joiner of an existing room whose view has settled, the host_status of
\* the join having reached App before Room was mounted
C37_Witness ==
    /\ HostViewSettled /\ Has(ClientRoom)
    /\ rooms[ClientRoom].hostId # ClientId
    /\ ClientId \in Ids(rooms[ClientRoom].participants)
    /\ "join_room" \notin client.answered
    /\ client.seen.hostId # ""

====
